---- MODULE Spec2Model ----
(***************************************************************************)
(* Model of the ICP DAS ET-7000 Tango device server (ET7000_Server.py):    *)
(* the per-instance lock, the connection-health bookkeeping, the channel   *)
(* read/write entry points, the reconnect sequence and the dynamic         *)
(* attribute registry.                                                     *)
(***************************************************************************)
EXTENDS Integers, Sequences, FiniteSets, TLC

\* ------------------------------------------------------------------ bounds
MaxChan == 2        \* largest channel count a module reports per kind
MaxTime == 2        \* the clock runs 1..MaxTime
MaxErr == 2         \* error_count is followed up to this value
MaxLocks == 3       \* Lock() objects created per instance
IOChan == 1         \* channels of the one kind a module of SpecIO has
MaxTimeout == 1     \* largest configured reconnect_timeout
MaxRounds == 2      \* remove_io / add_io rounds followed after construction
MaxCount == 2       \* registers asked for by one read_modbus command

\* ------------------------------------------------------- attribute names
\* Names are sequences of one-character strings so that the slices
\* attr_name[:2] and attr_name[-2:] and int(...) are computed as in Python.
AI == <<"a", "i">>
AO == <<"a", "o">>
DI == <<"d", "i">>
DO == <<"d", "o">>
KindOrder == <<AI, AO, DI, DO>>
Kinds == {AI, AO, DI, DO}

DigitChars == <<"0", "1", "2", "3", "4", "5", "6", "7", "8", "9">>

RECURSIVE Dec(_)
Dec(k) == IF k < 10 THEN <<DigitChars[k + 1]>>
          ELSE Dec(k \div 10) \o <<DigitChars[(k % 10) + 1]>>

\* '%02d' % k
Fmt02d(k) == IF k < 10 THEN <<"0">> \o Dec(k) ELSE Dec(k)

\* 'ai%02d' % k
ChanName(kind, k) == kind \o Fmt02d(k)

\* 'all_ai', ...
AllName(kind) == <<"a", "l", "l", "_">> \o kind

\* attr_name[:2]
Head2(name) == SubSeq(name, 1, 2)

\* attr_name[-2:]
Tail2(name) == SubSeq(name, Len(name) - 1, Len(name))

IsDigit(c) == \E i \in 1..10 : DigitChars[i] = c

DigitVal(c) == (CHOOSE i \in 1..10 : DigitChars[i] = c) - 1

\* int(s) for a two-character string; -1 stands for ValueError
IntOf(s) == IF IsDigit(s[1]) /\ IsDigit(s[2])
            THEN 10 * DigitVal(s[1]) + DigitVal(s[2])
            ELSE -1

\* ---------------------------------------------------- device metadata
\* What the driver object reports: channel counts and analog masks.
Count(hw, kind) == CASE kind = AI -> hw.ai_n
                     [] kind = AO -> hw.ao_n
                     [] kind = DI -> hw.di_n
                     [] kind = DO -> hw.do_n

\* et.ai_masks[k] / et.ao_masks[k]; digital channels have no mask (mask = True)
MaskOf(hw, kind, k) == CASE kind = AI -> hw.ai_masks[k + 1]
                         [] kind = AO -> hw.ao_masks[k + 1]
                         [] OTHER -> TRUE

BoolSeqs(n) == [1..n -> BOOLEAN]

HwAll == UNION { UNION { { [ai_n |-> a, ao_n |-> o, di_n |-> i, do_n |-> u,
                             ai_masks |-> am, ao_masks |-> om] :
                               i \in 0..MaxChan, u \in 0..MaxChan,
                               am \in BoolSeqs(a), om \in BoolSeqs(o) } :
                           o \in 0..MaxChan } : a \in 0..MaxChan }

\* the per-channel names of a module, and the kinds that have an aggregate
ChanNamesOf(h) == UNION { { ChanName(k, i) : i \in 0..(Count(h, k) - 1) } : k \in Kinds }
AggFailsOf(h) == { k \in Kinds : Count(h, k) > 0 } \cup {<<>>}

\* --------------------------------------------------- instance state
\* One record per ET7000_Server instance.  et is the driver object:
\* "None", "Zero" (object whose type is 0) or "Ok" (recognised type).
Fresh == [lockgen |-> 0, et |-> "None", ip |-> "None",
          error_count |-> 0, error_time |-> 0, state |-> "UNKNOWN",
          init_io |-> TRUE, attributes |-> <<>>, registered |-> {},
          invalid |-> {}, emulate |-> FALSE, reconnect_timeout |-> 0,
          show_disabled_channels |-> FALSE]

\* names currently known to the host framework (add_attribute / remove_attribute)
RegNames(S) == { r[1] : r \in S.registered }

\* attr.get_quality() of the framework attribute called name
Quality(S, name) == IF name \in S.invalid THEN "INVALID" ELSE "VALID"

\* a dict assignment that adds an entry even when the key is present
Put_appends(m, key, obj) == Append(m, <<key, obj>>)

\* dict assignment self.attributes[key] = obj, insertion order kept
RECURSIVE Put(_, _, _)
Put(m, key, obj) ==
    IF m = <<>> THEN << <<key, obj>> >>
    ELSE IF Head(m)[1] = key THEN << <<key, obj>> >> \o Tail(m)
    ELSE <<Head(m)>> \o Put(Tail(m), key, obj)

\* list.remove(x): drops the first occurrence
RECURSIVE RemoveFirst(_, _)
RemoveFirst(l, x) ==
    IF l = <<>> THEN <<>>
    ELSE IF Head(l) = x THEN Tail(l)
    ELSE <<Head(l)>> \o RemoveFirst(Tail(l), x)

InList(l, x) == \E i \in 1..Len(l) : l[i] = x

\* ------------------------------------------------------ health check
\* is_connected(): the value it returns
IsConnectedValue(S) == ~(S.et = "None" \/ S.et = "Zero")

\* is_connected() without the comparison against reconnect_timeout
ReconnectDue_no_timeout(S, now) ==
    /\ ~IsConnectedValue(S)
    /\ S.error_time > 0

\* is_connected(): the condition under which it calls self.reconnect()
ReconnectDue(S, now) ==
    /\ ~IsConnectedValue(S)
    /\ S.error_time > 0
    /\ S.error_time - now > S.reconnect_timeout

\* --------------------------------------------------- attribute values
\* set_error_attribute_value(attr): the attribute gets the error value v and
\* quality ATTR_INVALID; v is returned
set_error_attribute_value(S, a) == [S EXCEPT !.invalid = @ \cup {a}]

ErrorValue == "ErrorValue"

\* set_attribute_value that forgets to clear error_count
set_attribute_value_keeps_count(S, a, val) ==
    IF val # "None" /\ val # "NaN"
    THEN [S EXCEPT !.error_time = 0, !.invalid = @ \ {a}]
    ELSE set_error_attribute_value(S, a)

\* set_attribute_value(attr, value); val is "None", "NaN" or a reading
set_attribute_value(S, a, val) ==
    IF val # "None" /\ val # "NaN"
    THEN [S EXCEPT !.error_time = 0, !.error_count = 0, !.invalid = @ \ {a}]
    ELSE set_error_attribute_value(S, a)

\* what set_attribute_value(attr, value) returns
ValueReturned(val) == IF val # "None" /\ val # "NaN" THEN val ELSE ErrorValue

\* Result of a handler body: new instance state, driver method called
\* ("none" when no driver call was made), value handed back and whether
\* an exception left the handler.
Res(S, drv, ret, exc) == [S |-> S, drv |-> drv, ret |-> ret, exc |-> exc]

ReadDriverOf(kind) == CASE kind = AI -> "ai_read_channel"
                        [] kind = AO -> "ao_read_channel"
                        [] kind = DI -> "di_read_channel"
                        [] kind = DO -> "do_read_channel"

\* _read_io that counts a failed read whatever the mask
read_io_unmasked(S, hw, a, val, now) ==
    LET chan == IntOf(Tail2(a))
        ad == Head2(a)
    IN  IF chan = -1 THEN Res(S, "none", "ValueError", TRUE)
        ELSE IF ad \notin Kinds THEN Res(S, "none", "NaN", FALSE)
        ELSE IF S.et = "None" THEN Res(S, "none", "AttributeError", TRUE)
        ELSE IF ad \in {AI, AO} /\ chan >= Count(hw, ad)
             THEN Res(S, ReadDriverOf(ad), "IndexError", TRUE)
        ELSE IF val # "None" /\ val # "NaN"
             THEN Res(S, ReadDriverOf(ad), val, FALSE)
        ELSE Res([S EXCEPT !.error_count = @ + 1, !.error_time = now],
                 ReadDriverOf(ad), "NaN", FALSE)

\* _read_io(attr) with the driver returning val
read_io(S, hw, a, val, now) ==
    LET chan == IntOf(Tail2(a))
        ad == Head2(a)
    IN  IF chan = -1 THEN Res(S, "none", "ValueError", TRUE)
        ELSE IF ad \notin Kinds THEN Res(S, "none", "NaN", FALSE)
        ELSE IF S.et = "None" THEN Res(S, "none", "AttributeError", TRUE)
        ELSE IF ad \in {AI, AO} /\ chan >= Count(hw, ad)
             THEN Res(S, ReadDriverOf(ad), "IndexError", TRUE)
        ELSE IF val # "None" /\ val # "NaN"
             THEN Res(S, ReadDriverOf(ad), val, FALSE)
        ELSE IF MaskOf(hw, ad, chan)
             THEN Res([S EXCEPT !.error_count = @ + 1, !.error_time = now],
                      ReadDriverOf(ad), "NaN", FALSE)
        ELSE Res(S, ReadDriverOf(ad), "NaN", FALSE)

\* read_general that reads the driver without looking at is_connected()
read_general_unchecked(S, hw, a, connected, val, now) ==
    LET r == read_io(S, hw, a, val, now)
    IN  IF r.exc THEN r
        ELSE Res(set_attribute_value(r.S, a, r.ret), r.drv, ValueReturned(r.ret), FALSE)

\* read_general(attr) from the health check on, connected being the value
\* is_connected() returned
read_general(S, hw, a, connected, val, now) ==
    IF connected
    THEN LET r == read_io(S, hw, a, val, now)
         IN  IF r.exc THEN r
             ELSE Res(set_attribute_value(r.S, a, r.ret), r.drv, ValueReturned(r.ret), FALSE)
    ELSE Res(set_attribute_value(S, a, "None"), "none", ValueReturned("None"), FALSE)

\* write_general(attr) from the health check on, the driver returning result
write_general(S, hw, a, connected, result, now) ==
    LET chan == IntOf(Tail2(a))
        ad == Head2(a)
    IN  IF ~connected
        THEN Res(set_error_attribute_value(S, a), "none", "None", FALSE)
        ELSE IF chan = -1 THEN Res(S, "none", "ValueError", TRUE)
        ELSE IF ad \notin {AO, DO}
             THEN Res(set_error_attribute_value(S, a), "none", "None", FALSE)
        ELSE IF S.et = "None" THEN Res(S, "none", "AttributeError", TRUE)
        ELSE LET drv == IF ad = AO THEN "ao_write_channel" ELSE "do_write_channel"
             IN  IF ad = AO /\ chan >= Count(hw, AO)
                 THEN Res(S, drv, "IndexError", TRUE)
                 ELSE IF result
                 THEN Res([S EXCEPT !.error_time = 0, !.error_count = 0,
                                    !.invalid = @ \ {a}], drv, "None", FALSE)
                 ELSE IF MaskOf(hw, ad, chan)
                 THEN Res(set_error_attribute_value(
                            [S EXCEPT !.error_time = now, !.error_count = @ + 1], a),
                          drv, "None", FALSE)
                 ELSE Res(S, drv, "None", FALSE)

BulkDriverOf(kind) == CASE kind = AI -> "ai_read"
                        [] kind = AO -> "ao_read"
                        [] kind = DI -> "di_read"
                        [] kind = DO -> "do_read"

\* read_all that takes whatever the driver returns as a reading
read_all_any_result(S, hw, a, connected, val, now) ==
    LET ad == Tail2(a)
    IN  IF ~connected
        THEN Res(set_error_attribute_value(S, a), "none", ErrorValue, FALSE)
        ELSE IF ad \notin Kinds
             THEN Res(set_error_attribute_value(S, a), "none", ErrorValue, FALSE)
        ELSE IF S.et = "None" THEN Res(S, "none", "AttributeError", TRUE)
        ELSE Res([S EXCEPT !.error_time = 0, !.error_count = 0,
                           !.invalid = @ \ {a}], BulkDriverOf(ad), val, FALSE)

\* a read_all that counts an absent bulk reading as a failed read
read_all_counts_absent(S, hw, a, connected, val, now) ==
    LET ad == Tail2(a)
    IN  IF ~connected
        THEN Res(set_error_attribute_value(S, a), "none", ErrorValue, FALSE)
        ELSE IF ad \notin Kinds
             THEN Res(set_error_attribute_value(S, a), "none", ErrorValue, FALSE)
        ELSE IF S.et = "None" THEN Res(S, "none", "AttributeError", TRUE)
        ELSE IF val # "None"
             THEN Res([S EXCEPT !.error_time = 0, !.error_count = 0,
                                !.invalid = @ \ {a}], BulkDriverOf(ad), val, FALSE)
             ELSE Res([set_error_attribute_value(S, a) EXCEPT
                         !.error_time = now, !.error_count = @ + 1],
                      BulkDriverOf(ad), ErrorValue, FALSE)

\* read_all(attr) from the health check on; val is "None" or "Seq"
read_all(S, hw, a, connected, val, now) ==
    LET ad == Tail2(a)
    IN  IF ~connected
        THEN Res(set_error_attribute_value(S, a), "none", ErrorValue, FALSE)
        ELSE IF ad \notin Kinds
             THEN Res(set_error_attribute_value(S, a), "none", ErrorValue, FALSE)
        ELSE IF S.et = "None" THEN Res(S, "none", "AttributeError", TRUE)
        ELSE IF val # "None"
             THEN Res([S EXCEPT !.error_time = 0, !.error_count = 0,
                                !.invalid = @ \ {a}], BulkDriverOf(ad), val, FALSE)
             ELSE Res(set_error_attribute_value(S, a), BulkDriverOf(ad), ErrorValue, FALSE)

\* ------------------------------------------------------------ registry
\* The per-channel loop of add_io for one kind, from index k on.  R carries
\* the attributes dict, the framework's attribute set and the count of
\* channels created; fails is the set of names whose creation raises.
\* A loop over the channels of a kind that the first creation to raise ends.
RECURSIVE AddChannels_stops_at_failure(_, _, _, _, _, _)
AddChannels_stops_at_failure(R, hw, kind, k, show, fails) ==
    IF k >= Count(hw, kind) THEN R
    ELSE LET attr_name == ChanName(kind, k)
         IN  IF attr_name \in fails /\ (kind \in {DI, DO} \/ MaskOf(hw, kind, k) \/ show)
             THEN R
             ELSE IF kind \in {DI, DO} \/ MaskOf(hw, kind, k) \/ show
             THEN AddChannels_stops_at_failure(
                      [attributes |-> Put(R.attributes, attr_name, attr_name),
                       registered |-> R.registered \cup {<<attr_name, 1>>},
                       n |-> R.n + 1, failed |-> FALSE],
                      hw, kind, k + 1, show, fails)
             ELSE AddChannels_stops_at_failure(R, hw, kind, k + 1, show, fails)

RECURSIVE AddChannels(_, _, _, _, _, _)
AddChannels(R, hw, kind, k, show, fails) ==
    IF k >= Count(hw, kind) THEN R
    ELSE LET attr_name == ChanName(kind, k)
         IN  IF attr_name \in fails
             THEN AddChannels(R, hw, kind, k + 1, show, fails)
             ELSE IF kind \in {DI, DO} \/ MaskOf(hw, kind, k) \/ show
             THEN AddChannels([attributes |-> Put(R.attributes, attr_name, attr_name),
                               registered |-> R.registered \cup {<<attr_name, 1>>},
                               n |-> R.n + 1, failed |-> FALSE],
                              hw, kind, k + 1, show, fails)
             ELSE AddChannels(R, hw, kind, k + 1, show, fails)

\* a block of add_io that sizes the aggregate by the channels it created
AddKind_sized_by_created(R, hw, kind, show, fails, aggFail) ==
    IF Count(hw, kind) > 0
    THEN LET L == AddChannels(R, hw, kind, 0, show, fails)
             attr_name == ChanName(kind, Count(hw, kind) - 1)
         IN  IF aggFail = kind
             THEN [L EXCEPT !.failed = TRUE]
             ELSE [L EXCEPT !.attributes = Put(@, attr_name, AllName(kind)),
                            !.registered = @ \cup {<<AllName(kind), L.n - R.n>>}]
    ELSE R

\* One kind's block of add_io: the loop, then the aggregate attribute, which
\* is registered as all_<kind> but stored in the dict under attr_name, the
\* name the loop assigned last.  aggFail is the kind whose aggregate
\* creation raises (<<>> for none).
AddKind(R, hw, kind, show, fails, aggFail) ==
    IF Count(hw, kind) > 0
    THEN LET L == AddChannels(R, hw, kind, 0, show, fails)
             attr_name == ChanName(kind, Count(hw, kind) - 1)
         IN  IF aggFail = kind
             THEN [L EXCEPT !.failed = TRUE]
             ELSE [L EXCEPT !.attributes = Put(@, attr_name, AllName(kind)),
                            !.registered = @ \cup {<<AllName(kind), Count(hw, kind)>>}]
    ELSE R

RECURSIVE AddKinds(_, _, _, _, _, _)
AddKinds(R, hw, i, show, fails, aggFail) ==
    IF i > Len(KindOrder) \/ R.failed THEN R
    ELSE AddKinds(AddKind(R, hw, KindOrder[i], show, fails, aggFail),
                  hw, i + 1, show, fails, aggFail)

\* some per-channel creation that add_io attempts raises
CreationRaised(S, h, fails) ==
    \E k \in Kinds : \E i \in 0..(Count(h, k) - 1) :
        /\ ChanName(k, i) \in fails
        /\ (k \in {DI, DO} \/ MaskOf(h, k, i) \/ S.show_disabled_channels)

\* the channels add_io creates an attribute for: those enabled, or all of
\* them when show_disabled_channels is set
Wanted(S, h) ==
    { name \in ChanNamesOf(h) :
        \E k \in Kinds : \E i \in 0..(Count(h, k) - 1) :
            /\ name = ChanName(k, i)
            /\ (k \in {DI, DO} \/ MaskOf(h, k, i) \/ S.show_disabled_channels) }

\* what a finished add_io is remembered by: whether the creation of an
\* aggregate raised, and the per-channel creations that raised in a build
\* that went through all kinds
BuildRecord(L, S, h, fails, aggFail) ==
    [L EXCEPT !.agg = (S.et = "Ok" /\ aggFail # <<>>),
              !.fails = IF S.et = "Ok" /\ aggFail = <<>>
                        THEN fails \cap Wanted(S, h) ELSE {}]

\* add_io() once the lock is held.  ret is the value returned: the number
\* of per-channel attributes created, or "None".
add_io(S, hw, fails, aggFail, now) ==
    IF S.et = "None" \/ S.et = "Zero"
    THEN Res([S EXCEPT !.error_time = now, !.error_count = @ + 1, !.state = "FAULT"],
             "none", "None", FALSE)
    ELSE LET R == AddKinds([attributes |-> S.attributes, registered |-> S.registered,
                            n |-> 0, failed |-> FALSE],
                           hw, 1, S.show_disabled_channels, fails, aggFail)
         IN  IF R.failed
             THEN Res([S EXCEPT !.attributes = R.attributes,
                                !.registered = R.registered,
                                !.error_time = now, !.error_count = 1,
                                !.state = "FAULT"],
                      "none", "None", FALSE)
             ELSE Res([S EXCEPT !.attributes = R.attributes,
                                !.registered = R.registered,
                                !.error_time = 0, !.error_count = 0,
                                !.state = "RUNNING", !.init_io = FALSE],
                      "none", R.n, FALSE)

\* The loop of remove_io over the dict from entry i on; failAt is the entry
\* whose removal the framework refuses (0 for none); removal of a name the
\* framework does not know raises as well.
RECURSIVE RemoveLoop(_, _, _, _)
RemoveLoop(reg, attrs, i, failAt) ==
    IF i > Len(attrs) THEN [registered |-> reg, failed |-> FALSE]
    ELSE LET attr_name == attrs[i][1]
         IN  IF i = failAt \/ attr_name \notin { r[1] : r \in reg }
             THEN [registered |-> reg, failed |-> TRUE]
             ELSE RemoveLoop({ r \in reg : r[1] # attr_name }, attrs, i + 1, failAt)

\* remove_io() once the lock is held
remove_io(S, failAt) ==
    LET L == RemoveLoop(S.registered, S.attributes, 1, failAt)
    IN  IF L.failed
        THEN [S EXCEPT !.registered = L.registered]
        ELSE [S EXCEPT !.registered = L.registered, !.attributes = <<>>,
                       !.state = "UNKNOWN", !.init_io = TRUE]

\* ------------------------------------------------------ open and close
\* the loop of set_config over ET7000_Server.device_list
IpInUse(D, list, ip) ==
    \E i \in 1..Len(list) : ~D[list[i]].emulate /\ D[list[i]].ip = ip

\* a set_config that clears error_count and leaves error_time as it was
set_config_keeps_time(D, list, d, cfg, outcome, now) ==
    LET S0 == [D[d] EXCEPT !.init_io = TRUE, !.attributes = <<>>, !.et = "None",
                           !.ip = "None", !.error_count = 0,
                           !.emulate = cfg.emulate,
                           !.reconnect_timeout = cfg.reconnect_timeout,
                           !.show_disabled_channels = cfg.show_disabled_channels,
                           !.state = "INIT"]
        D0 == [D EXCEPT ![d] = S0]
    IN  IF IpInUse(D0, list, cfg.ip)
        THEN [S |-> [S0 EXCEPT !.state = "FAULT", !.error_count = @ + 1,
                               !.error_time = now],
              list |-> list]
        ELSE CASE outcome = "raise" ->
                    [S |-> [S0 EXCEPT !.error_time = now, !.state = "FAULT"],
                     list |-> list]
               [] outcome = "notready" ->
                    [S |-> [S0 EXCEPT !.ip = cfg.ip, !.et = "Zero", !.state = "FAULT",
                                      !.error_count = @ + 1, !.error_time = now],
                     list |-> list]
               [] outcome = "unknown" ->
                    [S |-> [S0 EXCEPT !.ip = cfg.ip, !.et = "Zero", !.state = "FAULT"],
                     list |-> Append(list, d)]
               [] OTHER ->
                    [S |-> [S0 EXCEPT !.ip = cfg.ip, !.et = "Ok", !.state = "RUNNING"],
                     list |-> Append(list, d)]

\* set_config() of instance d.  D maps instances to their records, list is
\* ET7000_Server.device_list, cfg the configured properties, outcome what
\* the driver does: "raise", "notready" (module type stays 0 for the whole
\* wait), "unknown" (type not recognised) or "ok".
set_config(D, list, d, cfg, outcome, now) ==
    LET S0 == [D[d] EXCEPT !.init_io = TRUE, !.attributes = <<>>, !.et = "None",
                           !.ip = "None", !.error_count = 0, !.error_time = 0,
                           !.emulate = cfg.emulate,
                           !.reconnect_timeout = cfg.reconnect_timeout,
                           !.show_disabled_channels = cfg.show_disabled_channels,
                           !.state = "INIT"]
        D0 == [D EXCEPT ![d] = S0]
    IN  IF IpInUse(D0, list, cfg.ip)
        THEN [S |-> [S0 EXCEPT !.state = "FAULT", !.error_count = @ + 1,
                               !.error_time = now],
              list |-> list]
        ELSE CASE outcome = "raise" ->
                    [S |-> [S0 EXCEPT !.error_time = now, !.state = "FAULT"],
                     list |-> list]
               [] outcome = "notready" ->
                    [S |-> [S0 EXCEPT !.ip = cfg.ip, !.et = "Zero", !.state = "FAULT",
                                      !.error_count = @ + 1, !.error_time = now],
                     list |-> list]
               [] outcome = "unknown" ->
                    [S |-> [S0 EXCEPT !.ip = cfg.ip, !.et = "Zero", !.state = "FAULT"],
                     list |-> Append(list, d)]
               [] OTHER ->
                    [S |-> [S0 EXCEPT !.ip = cfg.ip, !.et = "Ok", !.state = "RUNNING"],
                     list |-> Append(list, d)]

Outcomes == {"raise", "notready", "unknown", "ok"}

\* delete_device() after remove_io() has returned
delete_device(S, list, d) ==
    [S |-> [S EXCEPT !.et = "None", !.ip = "None"],
     list |-> IF InList(list, d) THEN RemoveFirst(list, d) ELSE list]

\* ------------------------------------------------------------- state
Devs == {"d1", "d2"}
NThreads == 2
Threads == 1..NThreads
NoThread == 0

ChanOps == {"read_general", "write_general", "read_all"}

VARIABLES
    dev,          \* instance -> record of its attributes (self.*)
    device_list,  \* ET7000_Server.device_list
    holder,       \* instance -> Lock objects created so far -> owning thread
    stk,          \* thread -> call stack of frames, innermost last
    now,          \* time.time()
    cfg,          \* instance -> configured properties (self.config)
    hw,           \* instance -> what the module reports (counts, masks)
    last,         \* the handler (or health check) that the latest step
                  \* completed, with its effect; NoLast after other steps
    hist          \* when is_connected() last found the instance disconnected
                  \* (checkAt) and last called reconnect() (trigAt); 0 for never

vars == <<dev, device_list, holder, stk, now, cfg, hw, last, hist>>

NoCfg == [emulate |-> FALSE, reconnect_timeout |-> 0,
          show_disabled_channels |-> FALSE, ip |-> "None"]
NoHw == [ai_n |-> 0, ao_n |-> 0, di_n |-> 0, do_n |-> 0,
         ai_masks |-> <<>>, ao_masks |-> <<>>]
NoLast == [op |-> "none", chk |-> FALSE, d |-> "d1", a |-> <<>>, conn |-> FALSE,
           drv |-> "none",
           ret |-> "None", exc |-> FALSE, res |-> "None", trig |-> FALSE,
           prevCheckAt |-> 0, prevTrigAt |-> 0,
           ec0 |-> 0, et0 |-> 0, ec1 |-> 0, et1 |-> 0,
           q0 |-> "VALID", q1 |-> "VALID", at |-> 0,
           registered |-> {}, attributes |-> <<>>, state |-> "UNKNOWN",
           fails |-> {}, rounds |-> 0, held |-> TRUE, n |-> 0,
           vals |-> <<>>, agg |-> FALSE]

Init ==
    /\ dev = [d \in Devs |-> Fresh]
    /\ device_list = <<>>
    /\ holder = [d \in Devs |-> <<>>]
    /\ stk = [t \in Threads |-> <<>>]
    /\ now = 1
    /\ cfg = [d \in Devs |-> NoCfg]
    /\ hw = [d \in Devs |-> NoHw]
    /\ last = NoLast
    /\ hist = [checkAt |-> 0, trigAt |-> 0]

\* ------------------------------------------------------------ frames
Frame(p, pc, d, a) == [p |-> p, pc |-> pc, d |-> d, a |-> a, lk |-> 0, i |-> 1]

Idle(t) == stk[t] = <<>>
Top(t) == stk[t][Len(stk[t])]
At(t, p, pc) == ~Idle(t) /\ Top(t).p = p /\ Top(t).pc = pc

SetTop(t, f) == [stk EXCEPT ![t] = SubSeq(@, 1, Len(@) - 1) \o <<f>>]
Goto(t, pc) == SetTop(t, [Top(t) EXCEPT !.pc = pc])
Call(t, retpc, f) == [stk EXCEPT ![t] =
                        SubSeq(@, 1, Len(@) - 1) \o <<[Top(t) EXCEPT !.pc = retpc], f>>]
Return(t) == [stk EXCEPT ![t] = SubSeq(@, 1, Len(@) - 1)]

\* leaving "with self.lock:" releases the Lock object that was entered
Release(t) == [holder EXCEPT ![Top(t).d][Top(t).lk] = NoThread]

Finished(op, d, a, conn, res, r, S0) ==
    [op |-> op, chk |-> FALSE, d |-> d, a |-> a, conn |-> conn, drv |-> r.drv,
     ret |-> r.ret,
     exc |-> r.exc, res |-> res, trig |-> FALSE,
     prevCheckAt |-> 0, prevTrigAt |-> 0,
     ec0 |-> S0.error_count, et0 |-> S0.error_time,
     ec1 |-> r.S.error_count, et1 |-> r.S.error_time,
     q0 |-> Quality(S0, a), q1 |-> Quality(r.S, a), at |-> now,
     registered |-> IF op \in ChanOps THEN {} ELSE r.S.registered,
     attributes |-> IF op \in ChanOps THEN <<>> ELSE r.S.attributes,
     state |-> r.S.state, fails |-> {}, rounds |-> 0, held |-> TRUE, n |-> 0,
     vals |-> <<>>, agg |-> FALSE]

\* ------------------------------------------------------------ actions
\* Construction of an instance by the host framework: init_device()
\* followed by initialize_dynamic_attributes(), before the instance is
\* visible to any other thread.  CfgSet and HwSet are the configurations
\* and modules considered.
ConstructOf(d, c, h, outcome, fails, aggFail) ==
    LET D1 == [dev EXCEPT ![d].lockgen = 1]
        sc == set_config(D1, device_list, d, c, outcome, now)
        r == add_io(sc.S, h, fails, aggFail, now)
    IN  /\ dev' = [dev EXCEPT ![d] = r.S]
        /\ device_list' = sc.list
        /\ holder' = [holder EXCEPT ![d] = <<NoThread>>]
        /\ cfg' = [cfg EXCEPT ![d] = c]
        /\ hw' = [hw EXCEPT ![d] = h]
        /\ last' = BuildRecord(Finished("add_io", d, <<>>, IsConnectedValue(sc.S),
                                     IF CreationRaised(sc.S, h, fails)
                                     THEN "raised" ELSE "clean",
                                     r, sc.S),
                            sc.S, h, fails, aggFail)
        /\ UNCHANGED <<stk, now, hist>>

\* time passes
Tick ==
    /\ now < MaxTime
    /\ now' = now + 1
    /\ last' = NoLast
    /\ UNCHANGED <<dev, device_list, holder, stk, cfg, hw, hist>>

\* Entry points.  A request for an instance that has been constructed is
\* taken by an idle thread of the host framework; the threads being
\* interchangeable, it is the first idle one.
Server(t) == Idle(t) /\ \A u \in Threads : u < t => ~Idle(u)

Start(t, f) ==
    /\ Server(t)
    /\ dev[f.d].lockgen > 0
    /\ stk' = [stk EXCEPT ![t] = <<f>>]
    /\ last' = NoLast
    /\ UNCHANGED <<dev, device_list, holder, now, cfg, hw, hist>>

\* a thread that waits for a Lock object some thread holds
Blocked(t) ==
    /\ ~Idle(t)
    /\ Top(t).pc = "acq"
    /\ holder[Top(t).d][Top(t).lk] # NoThread

\* no other thread is running: requests served one at a time
Quiet(t) == \A u \in Threads \ {t} : Idle(u) \/ Blocked(u)

\* The handlers add_io gives each attribute: fget=read_general for a channel,
\* fset=write_general for an output channel, fget=read_all for an aggregate.
HandlersOf(a) ==
    IF Head2(a) \in Kinds
    THEN {"read_general"} \cup (IF Head2(a) \in {AO, DO} THEN {"write_general"} ELSE {})
    ELSE {"read_all"}

\* the framework reads or writes one of the attributes registered with it
StartChannelOp(t, d) ==
    \E a \in RegNames(dev[d]) : \E op \in HandlersOf(a) :
        Start(t, Frame(op, "bind", d, a))

\* the reconnect command
StartReconnect(t, d) == Start(t, Frame("reconnect", "r0", d, <<>>))

\* the framework re-initialises the instance
StartInitDevice(t, d) ==
    /\ dev[d].lockgen < MaxLocks
    /\ Start(t, Frame("init_device", "new", d, <<>>))

\* the event loop runs looping()
StartLooping(t, d) == Start(t, Frame("looping", "loop", d, <<>>))


\* "with self.lock": the attribute self.lock is read ...
BindLock ==
    \E t \in Threads :
        /\ ~Idle(t)
        /\ Top(t).pc = "bind"
        /\ stk' = SetTop(t, [Top(t) EXCEPT !.lk = dev[Top(t).d].lockgen, !.pc = "acq"])
        /\ last' = NoLast
        /\ UNCHANGED <<dev, device_list, holder, now, cfg, hw, hist>>

\* ... and that Lock object is acquired; Lock is not reentrant
AcquireLock ==
    \E t \in Threads :
        /\ ~Idle(t)
        /\ Top(t).pc = "acq"
        /\ holder[Top(t).d][Top(t).lk] = NoThread
        /\ holder' = [holder EXCEPT ![Top(t).d][Top(t).lk] = t]
        /\ stk' = Goto(t, "body")
        /\ last' = NoLast
        /\ UNCHANGED <<dev, device_list, now, cfg, hw, hist>>

\* what an evaluation of is_connected() on S shows: the value returned,
\* whether reconnect() was called, and the time of the previous check
Checked(S, d) ==
    [NoLast EXCEPT !.op = "is_connected", !.chk = TRUE, !.d = d,
                   !.conn = IsConnectedValue(S),
                   !.trig = ReconnectDue(S, now), !.at = now,
                   !.prevCheckAt = hist.checkAt,
                   !.prevTrigAt = hist.trigAt,
                   !.ec0 = S.error_count, !.et0 = S.error_time,
                   !.ec1 = S.error_count, !.et1 = S.error_time]

\* the times of the last check of a disconnected instance and of the last
\* reconnect() called from one
CheckTimes(S) ==
    IF IsConnectedValue(S) THEN hist
    ELSE [checkAt |-> now,
          trigAt |-> IF ReconnectDue(S, now) THEN now ELSE hist.trigAt]

\* is_connected() inside a channel handler: a reconnect that is due is
\* called from here, and the handler goes on with the value returned.
HealthCheck ==
    \E t \in Threads :
      /\ ~Idle(t)
      /\ Top(t).p \in ChanOps
      /\ Top(t).pc = "body"
      /\ LET d == Top(t).d
             S == dev[d]
             v == IsConnectedValue(S)
             due == ReconnectDue(S, now)
         IN  /\ stk' = IF due
                       THEN Call(t, "disc", Frame("reconnect", "r0", d, <<>>))
                       ELSE Goto(t, IF v THEN "drv" ELSE "disc")
             /\ hist' = CheckTimes(S)
             /\ last' = Checked(S, d)
      /\ UNCHANGED <<dev, device_list, holder, now, cfg, hw>>

\* The rest of a channel handler: the driver call with its bookkeeping when
\* is_connected() returned true, the error value otherwise; leaving the
\* handler releases the lock.  res is what the driver answers.
ChannelResult(op, S, h, a, connected, res, t) ==
    CASE op = "read_general" -> read_general(S, h, a, connected, res, t)
      [] op = "write_general" -> write_general(S, h, a, connected, res = "True", t)
      [] op = "read_all" -> read_all(S, h, a, connected, res, t)

DriverAnswers(op) ==
    CASE op = "read_general" -> {"None", "NaN", "Num"}
      [] op = "write_general" -> {"True", "False"}
      [] op = "read_all" -> {"None", "Seq"}

ChannelBody ==
    \E t \in Threads :
      /\ ~Idle(t)
      /\ Top(t).p \in ChanOps
      /\ Top(t).pc \in {"drv", "disc"}
      /\ LET f == Top(t)
             S == dev[f.d]
             connected == (f.pc = "drv")
         IN  \E res \in (IF connected THEN DriverAnswers(f.p) ELSE {"None"}) :
               LET r == ChannelResult(f.p, S, hw[f.d], f.a, connected, res, now)
               IN  /\ r.S.error_count <= MaxErr
                   /\ dev' = [dev EXCEPT ![f.d] = r.S]
                   /\ last' = Finished(f.p, f.d, f.a, connected, res, r, S)
      /\ holder' = Release(t)
      /\ stk' = Return(t)
      /\ UNCHANGED <<device_list, now, cfg, hw, hist>>

\* reconnect(): delete_device(), init_device(), add_io(), one after the other
ReconnectStep ==
    \E t \in Threads :
      /\ ~Idle(t)
      /\ Top(t).p = "reconnect"
      /\ LET d == Top(t).d
         IN  CASE Top(t).pc = "r0" ->
                    stk' = Call(t, "r1", Frame("delete_device", "bind", d, <<>>))
               [] Top(t).pc = "r1" ->
                    /\ dev[d].lockgen < MaxLocks
                    /\ stk' = Call(t, "r2", Frame("init_device", "new", d, <<>>))
               [] Top(t).pc = "r2" ->
                    stk' = Call(t, "r3", Frame("add_io", "bind", d, <<>>))
               [] OTHER -> stk' = Return(t)
      /\ last' = NoLast
      /\ UNCHANGED <<dev, device_list, holder, now, cfg, hw, hist>>

\* delete_device() holding the lock: it calls remove_io()
DeleteDeviceBody ==
    \E t \in Threads :
      /\ At(t, "delete_device", "body")
      /\ stk' = Call(t, "tail", Frame("remove_io", "bind", Top(t).d, <<>>))
      /\ last' = NoLast
      /\ UNCHANGED <<dev, device_list, holder, now, cfg, hw, hist>>

\* delete_device() after remove_io(): close, forget the driver object and
\* the address, leave the device list
DeleteDeviceTail ==
    \E t \in Threads :
      /\ At(t, "delete_device", "tail")
      /\ LET d == Top(t).d
             r == delete_device(dev[d], device_list, d)
         IN  /\ dev' = [dev EXCEPT ![d] = r.S]
             /\ device_list' = r.list
      /\ holder' = Release(t)
      /\ stk' = Return(t)
      /\ last' = NoLast
      /\ UNCHANGED <<now, cfg, hw, hist>>

\* remove_io() holding the lock
RemoveIoBody ==
    \E t \in Threads :
      /\ At(t, "remove_io", "body")
      /\ LET d == Top(t).d
         IN  \E failAt \in 0..Len(dev[d].attributes) :
               dev' = [dev EXCEPT ![d] = remove_io(dev[d], failAt)]
      /\ holder' = Release(t)
      /\ stk' = Return(t)
      /\ last' = NoLast
      /\ UNCHANGED <<device_list, now, cfg, hw, hist>>

\* init_device(): self.lock = Lock()
InitDeviceNew ==
    \E t \in Threads :
      /\ At(t, "init_device", "new")
      /\ LET d == Top(t).d
         IN  /\ dev' = [dev EXCEPT ![d].lockgen = @ + 1]
             /\ holder' = [holder EXCEPT ![d] = Append(@, NoThread)]
      /\ stk' = Goto(t, "bind")
      /\ last' = NoLast
      /\ UNCHANGED <<device_list, now, cfg, hw, hist>>

\* init_device() holding the lock: an instance found in the device list is
\* taken out of it and delete_device() is called
InitDeviceBody ==
    \E t \in Threads :
      /\ At(t, "init_device", "body")
      /\ LET d == Top(t).d
         IN  IF InList(device_list, d)
             THEN /\ device_list' = RemoveFirst(device_list, d)
                  /\ stk' = Call(t, "cfg", Frame("delete_device", "bind", d, <<>>))
             ELSE /\ device_list' = device_list
                  /\ stk' = Goto(t, "cfg")
      /\ last' = NoLast
      /\ UNCHANGED <<dev, holder, now, cfg, hw, hist>>

\* init_device(): super().init_device(), which calls set_config()
InitDeviceConfig ==
    \E t \in Threads :
      /\ At(t, "init_device", "cfg")
      /\ LET d == Top(t).d
         IN  \E outcome \in Outcomes :
               LET r == set_config(dev, device_list, d, cfg[d], outcome, now)
               IN  /\ dev' = [dev EXCEPT ![d] = r.S]
                   /\ device_list' = r.list
      /\ holder' = Release(t)
      /\ stk' = Return(t)
      /\ last' = NoLast
      /\ UNCHANGED <<now, cfg, hw, hist>>

\* add_io() holding the lock
AddIoBody ==
    \E t \in Threads :
      /\ At(t, "add_io", "body")
      /\ LET d == Top(t).d
             S == dev[d]
         IN  \E fails \in SUBSET ChanNamesOf(hw[d]), aggFail \in AggFailsOf(hw[d]) :
               LET r == add_io(S, hw[d], fails, aggFail, now)
               IN  /\ r.S.error_count <= MaxErr
                   /\ dev' = [dev EXCEPT ![d] = r.S]
                   /\ last' = Finished("add_io", d, <<>>, IsConnectedValue(S),
                                       IF CreationRaised(S, hw[d], fails)
                                       THEN "raised" ELSE "clean",
                                       r, S)
      /\ holder' = Release(t)
      /\ stk' = Return(t)
      /\ UNCHANGED <<device_list, now, cfg, hw, hist>>

\* looping(): for dev in device_list: if dev.init_io: dev.add_io()
LoopingStep ==
    \E t \in Threads :
      /\ At(t, "looping", "loop")
      /\ LET i == Top(t).i
         IN  IF i > Len(device_list) THEN stk' = Return(t)
             ELSE IF dev[device_list[i]].init_io
             THEN stk' = [stk EXCEPT ![t] =
                            SubSeq(@, 1, Len(@) - 1)
                            \o <<[Top(t) EXCEPT !.i = i + 1],
                                 Frame("add_io", "bind", device_list[i], <<>>)>>]
             ELSE stk' = SetTop(t, [Top(t) EXCEPT !.i = i + 1])
      /\ last' = NoLast
      /\ UNCHANGED <<dev, device_list, holder, now, cfg, hw, hist>>

\* ------------------------------------------------------ whole handlers
\* The same handlers run from entry to return by a thread that nothing
\* interleaves with.  A call that comes to wait for a Lock object its own
\* thread holds never returns: the thread stays where it waits, holding the
\* lock.  A call that finds the lock held by such a thread waits for ever
\* too and changes nothing.
LockFree(d) == holder[d][dev[d].lockgen] = NoThread

Entered(f, g, pc) == [f EXCEPT !.lk = g, !.pc = pc]

\* read_general / write_general / read_all, start to end
ServeChannel(t, d, op, a) ==
    LET S == dev[d]
        g == S.lockgen
        v == IsConnectedValue(S)
    IN  /\ Server(t)
        /\ g > 0
        /\ LockFree(d)
        /\ hist' = CheckTimes(S)
        /\ IF ReconnectDue(S, now)
           THEN \* reconnect() -> delete_device() waits for the handler's lock
                /\ holder' = [holder EXCEPT ![d][g] = t]
                /\ stk' = [stk EXCEPT ![t] =
                             << Entered(Frame(op, "bind", d, a), g, "disc"),
                                Frame("reconnect", "r1", d, <<>>),
                                Entered(Frame("delete_device", "bind", d, <<>>),
                                        g, "acq") >>]
                /\ dev' = dev
                /\ last' = Checked(S, d)
           ELSE /\ \E res \in (IF v THEN DriverAnswers(op) ELSE {"None"}) :
                     LET r == ChannelResult(op, S, hw[d], a, v, res, now)
                     IN  /\ r.S.error_count <= MaxErr
                         /\ dev' = [dev EXCEPT ![d] = r.S]
                         /\ last' = [Finished(op, d, a, v, res, r, S) EXCEPT
                                       !.chk = TRUE,
                                       !.prevCheckAt = hist.checkAt,
                                       !.prevTrigAt = hist.trigAt]
                /\ UNCHANGED <<holder, stk>>
        /\ UNCHANGED <<device_list, now, cfg, hw>>

\* init_device(), start to end: a new Lock, entered; an instance found in
\* the device list is taken out of it and delete_device() is called, which
\* waits for the lock init_device() holds; otherwise set_config() runs
ServeInitDevice(t, d) ==
    LET g == dev[d].lockgen + 1
        D1 == [dev EXCEPT ![d].lockgen = g]
    IN  /\ Server(t)
        /\ dev[d].lockgen > 0
        /\ dev[d].lockgen < MaxLocks
        /\ IF InList(device_list, d)
           THEN /\ dev' = D1
                /\ device_list' = RemoveFirst(device_list, d)
                /\ holder' = [holder EXCEPT ![d] = Append(@, t)]
                /\ stk' = [stk EXCEPT ![t] =
                             << Entered(Frame("init_device", "new", d, <<>>), g, "cfg"),
                                Entered(Frame("delete_device", "bind", d, <<>>),
                                        g, "acq") >>]
                /\ last' = NoLast
           ELSE /\ \E outcome \in Outcomes :
                     LET r == set_config(D1, device_list, d, cfg[d], outcome, now)
                         inUse == IpInUse([D1 EXCEPT ![d].ip = "None"], device_list,
                                          cfg[d].ip)
                     IN  /\ dev' = [D1 EXCEPT ![d] = r.S]
                         /\ device_list' = r.list
                         /\ last' = [NoLast EXCEPT
                                       !.op = "init_device", !.d = d,
                                       !.conn = IsConnectedValue(r.S),
                                       !.res = IF inUse THEN "in_use" ELSE outcome,
                                       !.ec0 = dev[d].error_count,
                                       !.et0 = dev[d].error_time,
                                       !.ec1 = r.S.error_count,
                                       !.et1 = r.S.error_time,
                                       !.state = r.S.state, !.at = now]
                /\ holder' = [holder EXCEPT ![d] = Append(@, NoThread)]
                /\ stk' = stk
        /\ UNCHANGED <<now, cfg, hw, hist>>

\* reconnect(), start to end: delete_device() enters the lock and calls
\* remove_io(), which waits for it
ServeReconnect(t, d) ==
    LET g == dev[d].lockgen
    IN  /\ Server(t)
        /\ g > 0
        /\ LockFree(d)
        /\ holder' = [holder EXCEPT ![d][g] = t]
        /\ stk' = [stk EXCEPT ![t] =
                     << Frame("reconnect", "r1", d, <<>>),
                        Entered(Frame("delete_device", "bind", d, <<>>), g, "tail"),
                        Entered(Frame("remove_io", "bind", d, <<>>), g, "acq") >>]
        /\ last' = NoLast
        /\ UNCHANGED <<dev, device_list, now, cfg, hw, hist>>

\* remove_io() called with the lock free, start to end; it catches whatever
\* the loop raises.  failAt is the dict entry whose removal the framework
\* refuses (0 for none).
ServeRemoveIo(t, d) ==
    LET S == dev[d]
    IN  /\ Server(t)
        /\ S.lockgen > 0
        /\ LockFree(d)
        /\ last.rounds < MaxRounds
        /\ \E failAt \in 0..Len(S.attributes) :
             LET S1 == remove_io(S, failAt)
             IN  /\ dev' = [dev EXCEPT ![d] = S1]
                 /\ last' = [NoLast EXCEPT
                               !.op = "remove_io", !.d = d,
                               !.conn = IsConnectedValue(S),
                               !.registered = S1.registered,
                               !.attributes = S1.attributes,
                               !.state = S1.state, !.at = now,
                               !.rounds = IF last.op = "add_io" THEN last.rounds ELSE 0]
        /\ UNCHANGED <<device_list, holder, stk, now, cfg, hw, hist>>

\* add_io() called with the lock free, start to end, no creation raising
ServeAddIo(t, d) ==
    LET S == dev[d]
        r == add_io(S, hw[d], {}, <<>>, now)
    IN  /\ Server(t)
        /\ S.lockgen > 0
        /\ LockFree(d)
        /\ r.S.error_count <= MaxErr
        /\ dev' = [dev EXCEPT ![d] = r.S]
        /\ last' = [Finished("add_io", d, <<>>, IsConnectedValue(S), "clean", r, S)
                      EXCEPT !.rounds = IF last.op = "remove_io"
                                        THEN last.rounds + 1 ELSE 0]
        /\ UNCHANGED <<device_list, holder, stk, now, cfg, hw, hist>>

\* looping(), start to end, in a server whose device list holds the one
\* instance d: add_io() is called while init_io is set
ServeLooping(t, d) ==
    LET S == dev[d]
    IN  /\ Server(t)
        /\ device_list = <<d>>
        /\ LockFree(d)
        /\ IF S.init_io
           THEN \E fails \in SUBSET (IF S.et = "Ok" THEN ChanNamesOf(hw[d]) ELSE {}),
                   aggFail \in (IF S.et = "Ok" THEN AggFailsOf(hw[d]) ELSE {<<>>}) :
                  LET r == add_io(S, hw[d], fails, aggFail, now)
                  IN  /\ r.S.error_count <= MaxErr
                      /\ dev' = [dev EXCEPT ![d] = r.S]
                      /\ last' = BuildRecord(
                                    Finished("add_io", d, <<>>, IsConnectedValue(S),
                                             IF CreationRaised(S, hw[d], fails)
                                             THEN "raised" ELSE "clean",
                                             r, S),
                                    S, hw[d], fails, aggFail)
           ELSE /\ dev' = dev
                /\ last' = NoLast
        /\ UNCHANGED <<device_list, holder, stk, now, cfg, hw, hist>>

\* ------------------------------------------- raw commands and status
\* [float('nan')] * n
NaNs(n) == [i \in 1..n |-> "NaN"]

\* what the driver's read_modbus(address, n) hands back: n register
\* values, an empty list, None, or an exception
RawReadAnswers == {"values", "empty", "None", "raise"}

Values(n) == [i \in 1..n |-> "Num"]

\* read_modbus with every failure answered by one NaN, the initial n
read_modbus_one_nan(S, n, answer) ==
    LET failed == S.et = "None" \/ answer \in {"empty", "None", "raise"} \/ n = 0
    IN  Res(S, IF S.et = "None" THEN "none" ELSE "read_modbus",
            IF failed THEN NaNs(1) ELSE Values(n), FALSE)

\* the command read_modbus(data) with data = [address, n]: no lock is
\* taken; self.et being None raises inside the try like a driver failure
read_modbus(S, n, answer) ==
    LET raised == S.et = "None" \/ answer = "raise"
        \* "if result:" is false for None and for an empty list
        truthy == answer = "values" /\ Values(n) # <<>>
    IN  Res(S, IF S.et = "None" THEN "none" ELSE "read_modbus",
            IF raised THEN NaNs(n)
            ELSE IF truthy THEN Values(n)
            ELSE NaNs(n),
            FALSE)

RawWriteAnswers == {"True", "False", "None", "raise"}

\* the command write_modbus(data): no lock is taken and nothing of the
\* instance is assigned
write_modbus(S, answer) ==
    Res(S, IF S.et = "None" THEN "none" ELSE "write_modbus",
        IF S.et # "None" /\ answer = "True" THEN "True" ELSE "False", FALSE)

\* the driver's type_str
TypeStr(et) == IF et = "Zero" THEN "0000" ELSE "7000"

\* read_device_type(): return self.et.type_str
read_device_type(S) ==
    IF S.et = "None" THEN Res(S, "none", "None", TRUE)
    ELSE Res(S, "none", TypeStr(S.et), FALSE)

\* read_IP(): return self.ip
read_IP(S) == Res(S, "none", S.ip, FALSE)

\* the record of a command or status query of instance d that thread t
\* has run from entry to return; vals is the sequence a command returned
RawDone(op, t, d, n, res, r) ==
    [NoLast EXCEPT
       !.op = op, !.d = d, !.n = n, !.res = res,
       !.conn = IsConnectedValue(dev[d]),
       !.drv = r.drv, !.exc = r.exc,
       !.ret = IF op = "read_modbus" THEN "Seq" ELSE r.ret,
       !.vals = IF op = "read_modbus" THEN r.ret ELSE <<>>,
       !.ec0 = dev[d].error_count, !.et0 = dev[d].error_time,
       !.ec1 = r.S.error_count, !.et1 = r.S.error_time,
       !.state = r.S.state, !.at = now,
       !.held = (holder[d][dev[d].lockgen] = t)]

ServeRaw(t, d, op, n, res, r) ==
    /\ Server(t)
    /\ dev[d].lockgen > 0
    /\ dev' = [dev EXCEPT ![d] = r.S]
    /\ last' = RawDone(op, t, d, n, res, r)
    /\ UNCHANGED <<device_list, holder, stk, now, cfg, hw, hist>>

ServeReadModbus(t, d) ==
    \E n \in 0..MaxCount, answer \in RawReadAnswers :
        ServeRaw(t, d, "read_modbus", n, answer, read_modbus(dev[d], n, answer))

ServeWriteModbus(t, d) ==
    \E answer \in RawWriteAnswers :
        ServeRaw(t, d, "write_modbus", 0, answer, write_modbus(dev[d], answer))

ServeReadDeviceType(t, d) ==
    ServeRaw(t, d, "read_device_type", 0, "None", read_device_type(dev[d]))

ServeReadIP(t, d) ==
    ServeRaw(t, d, "read_IP", 0, "None", read_IP(dev[d]))

\* init_device() of an instance the framework has just created, start to
\* end: the Lock, then set_config() with configuration c
OpenOf(d, c, outcome) ==
    LET D1 == [dev EXCEPT ![d].lockgen = 1]
        sc == set_config(D1, device_list, d, c, outcome, now)
        inUse == IpInUse([D1 EXCEPT ![d].ip = "None"], device_list, c.ip)
    IN  /\ dev[d].lockgen = 0
        /\ dev' = [dev EXCEPT ![d] = sc.S]
        /\ device_list' = sc.list
        /\ holder' = [holder EXCEPT ![d] = <<NoThread>>]
        /\ cfg' = [cfg EXCEPT ![d] = c]
        /\ last' = [NoLast EXCEPT
                      !.op = "init_device", !.d = d,
                      !.conn = IsConnectedValue(sc.S),
                      !.res = IF inUse THEN "in_use" ELSE outcome,
                      !.drv = IF inUse THEN "none"
                              ELSE IF c.emulate THEN "FakeET7000" ELSE "ET7000",
                      !.ec1 = sc.S.error_count, !.et1 = sc.S.error_time,
                      !.state = sc.S.state, !.at = now]
        /\ UNCHANGED <<stk, now, hw, hist>>

\* ------------------------------------------------------ specification
\* Spec: one instance, d1, and the threads of the host framework taking
\* requests concurrently, every interleaving of their steps.  The clock is
\* not followed here.
HwSet == { [NoHw EXCEPT !.do_n = 1] }

CfgSet == [emulate : {FALSE}, reconnect_timeout : {MaxTimeout},
           show_disabled_channels : {FALSE}, ip : {"ip1"}]

Construct ==
    /\ dev["d1"].lockgen = 0
    /\ \E c \in CfgSet, h \in HwSet, outcome \in Outcomes :
         \E fails \in SUBSET ChanNamesOf(h), aggFail \in AggFailsOf(h) :
           ConstructOf("d1", c, h, outcome, fails, aggFail)

ChannelCall == \E t \in Threads : StartChannelOp(t, "d1")
ReconnectCommand == \E t \in Threads : StartReconnect(t, "d1")
InitCall == \E t \in Threads : StartInitDevice(t, "d1")

Next ==
    \/ Construct
    \/ ChannelCall
    \/ ReconnectCommand
    \/ InitCall
    \/ BindLock
    \/ AcquireLock
    \/ HealthCheck
    \/ ChannelBody
    \/ ReconnectStep
    \/ DeleteDeviceBody
    \/ DeleteDeviceTail
    \/ RemoveIoBody
    \/ InitDeviceNew
    \/ InitDeviceBody
    \/ InitDeviceConfig
    \/ AddIoBody

Spec == Init /\ [][Next]_vars

\* SpecSeq: one instance, d1, whose requests the framework serves one at a
\* time, each handler running from entry to return before the next request
\* or the next tick of the clock.  The module is the one of Spec; the
\* reconnect timeout is 0 or MaxTimeout.
CfgSeq == [emulate : {FALSE}, reconnect_timeout : {0, MaxTimeout},
           show_disabled_channels : {TRUE}, ip : {"ip1"}]

ConstructSeq ==
    /\ dev["d1"].lockgen = 0
    /\ \E c \in CfgSeq, h \in HwSet, outcome \in Outcomes :
         ConstructOf("d1", c, h, outcome, {}, <<>>)

\* the framework reads or writes one of the attributes registered with it
SerialChannelCall ==
    \E t \in Threads, a \in RegNames(dev["d1"]) : \E op \in HandlersOf(a) :
        ServeChannel(t, "d1", op, a)

\* write_general called for an attribute it is not the handler of
SerialOtherWrite ==
    \E t \in Threads, a \in RegNames(dev["d1"]) :
        /\ "write_general" \notin HandlersOf(a)
        /\ ServeChannel(t, "d1", "write_general", a)

SerialInitCall == \E t \in Threads : ServeInitDevice(t, "d1")
SerialReconnectCommand == \E t \in Threads : ServeReconnect(t, "d1")

SeqNext ==
    \/ ConstructSeq
    \/ Tick
    \/ SerialChannelCall
    \/ SerialOtherWrite
    \/ SerialInitCall
    \/ SerialReconnectCommand

SpecSeq == Init /\ [][SeqNext]_vars

\* SpecIO: the same serial service for the modules with IOChan channels of
\* one kind, every combination of masks, disabled channels shown.
HwIO == { h \in HwAll : \E k \in Kinds :
              /\ Count(h, k) = IOChan
              /\ \A j \in Kinds \ {k} : Count(h, j) = 0 }

CfgIO == [emulate : {FALSE}, reconnect_timeout : {MaxTimeout},
          show_disabled_channels : {TRUE}, ip : {"ip1"}]

ConstructIO ==
    /\ dev["d1"].lockgen = 0
    /\ \E c \in CfgIO, h \in HwIO, outcome \in Outcomes :
         ConstructOf("d1", c, h, outcome, {}, <<>>)

IONext ==
    \/ ConstructIO
    \/ Tick
    \/ SerialChannelCall
    \/ SerialOtherWrite
    \/ SerialInitCall

SpecIO == Init /\ [][IONext]_vars

\* SpecReg: the registry of one instance, d1: construction and the event
\* loop, which builds again while init_io is set.  Modules considered:
\* up to MaxChan channels of a kind and MaxChan + 1 in all, every
\* combination of masks.
HwReg == { h \in HwAll : h.ai_n + h.ao_n + h.di_n + h.do_n <= MaxChan + 1 }

CfgReg == [emulate : {FALSE}, reconnect_timeout : {MaxTimeout},
           show_disabled_channels : BOOLEAN, ip : {"ip1"}]

\* the event loop runs looping() while no other request is being served
SerialLoopingCall == \E t \in Threads : Quiet(t) /\ StartLooping(t, "d1")

ConstructReg ==
    /\ dev["d1"].lockgen = 0
    /\ \E c \in CfgReg, h \in HwReg, outcome \in Outcomes :
         \E fails \in SUBSET ChanNamesOf(h), aggFail \in AggFailsOf(h) :
           ConstructOf("d1", c, h, outcome, fails, aggFail)

RegNext ==
    \/ ConstructReg
    \/ SerialLoopingCall
    \/ LoopingStep
    \/ BindLock
    \/ AcquireLock
    \/ AddIoBody

SpecReg == Init /\ [][RegNext]_vars

\* SpecTear: the registry of one instance, d1, torn down and built again
\* by direct calls of remove_io() and add_io(), one at a time.  Modules and
\* configurations are those of SpecReg; no attribute creation raises.
ConstructTear ==
    /\ dev["d1"].lockgen = 0
    /\ \E c \in CfgReg, h \in HwReg, outcome \in Outcomes :
         ConstructOf("d1", c, h, outcome, {}, <<>>)

SerialRemoveIo == \E t \in Threads : ServeRemoveIo(t, "d1")
SerialAddIo == \E t \in Threads : ServeAddIo(t, "d1")

TearNext ==
    \/ ConstructTear
    \/ SerialRemoveIo
    \/ SerialAddIo

SpecTear == Init /\ [][TearNext]_vars

\* SpecCfg: the two instances of a server, created one after the other
\* with any of the configurations CfgAll.
Addresses == {"ip1", "ip2"}

CfgAll == [emulate : BOOLEAN, reconnect_timeout : {MaxTimeout},
           show_disabled_channels : {FALSE}, ip : Addresses]

Open == \E d \in Devs, c \in CfgAll, outcome \in Outcomes : OpenOf(d, c, outcome)

CfgNext ==
    \/ Open
    \/ Tick

SpecCfg == Init /\ [][CfgNext]_vars

\* SpecBuild: the registry of one instance, d1, built at construction and
\* again by each pass of the event loop while init_io is set, any of the
\* per-channel creations and one aggregate creation at most raising.
\* Modules considered: up to MaxChan channels in all.
HwBuild == { h \in HwAll : h.ai_n + h.ao_n + h.di_n + h.do_n <= MaxChan }

ConstructBuild ==
    /\ dev["d1"].lockgen = 0
    /\ \E c \in CfgReg, h \in HwBuild, outcome \in Outcomes :
         \* add_io creates attributes only for a module that is recognised
         \E fails \in SUBSET (IF outcome = "ok" THEN ChanNamesOf(h) ELSE {}),
            aggFail \in (IF outcome = "ok" THEN AggFailsOf(h) ELSE {<<>>}) :
           ConstructOf("d1", c, h, outcome, fails, aggFail)

SerialLooping == \E t \in Threads : ServeLooping(t, "d1")

BuildNext ==
    \/ ConstructBuild
    \/ SerialLooping

SpecBuild == Init /\ [][BuildNext]_vars

\* SpecRaw: the serial service of SpecIO with the commands read_modbus and
\* write_modbus and the status attributes device_type and IP.
SerialReadModbus == \E t \in Threads : ServeReadModbus(t, "d1")
SerialWriteModbus == \E t \in Threads : ServeWriteModbus(t, "d1")
SerialReadDeviceType == \E t \in Threads : ServeReadDeviceType(t, "d1")
SerialReadIP == \E t \in Threads : ServeReadIP(t, "d1")

RawNext ==
    \/ ConstructIO
    \/ Tick
    \/ SerialChannelCall
    \/ SerialOtherWrite
    \/ SerialInitCall
    \/ SerialReadModbus
    \/ SerialWriteModbus
    \/ SerialReadDeviceType
    \/ SerialReadIP

SpecRaw == Init /\ [][RawNext]_vars

\* SpecModbus: the command read_modbus sent at any time to an instance
\* that is constructed and initialised again, with or without a driver
\* object.
ModbusNext ==
    \/ ConstructIO
    \/ Tick
    \/ SerialInitCall
    \/ SerialReadModbus

SpecModbus == Init /\ [][ModbusNext]_vars

\* ------------------------------------------------------------ claims
\* a channel handler of thread t is between its health check and the end
\* of its driver call, holding the lock it entered
InChannelOp(t) ==
    \E i \in 1..Len(stk[t]) :
        stk[t][i].p \in ChanOps /\ stk[t][i].pc \in {"body", "drv", "disc"}

InDriverCall(t) == ~Idle(t) /\ Top(t).p \in ChanOps /\ Top(t).pc = "drv"

\* thread t is executing the body of one of the steps of reconnect
InReconnectStep(t) ==
    /\ ~Idle(t)
    /\ Top(t).p \in {"delete_device", "remove_io", "init_device", "add_io"}
    /\ Top(t).pc \in {"body", "tail", "cfg"}

InReconnect(t) == \E i \in 1..Len(stk[t]) : stk[t][i].p = "reconnect"

\* thread t waits for a Lock object that t itself holds: it waits forever
SelfBlocked(t) ==
    /\ ~Idle(t)
    /\ Top(t).pc = "acq"
    /\ holder[Top(t).d][Top(t).lk] = t

\* the channel of attribute a is enabled: its mask is true, digital
\* channels counting as enabled
EnabledChannel(h, a) ==
    Head2(a) \in {DI, DO} \/ MaskOf(h, Head2(a), IntOf(Tail2(a)))

\* C1: while a channel handler of one thread is in progress on an instance,
\* no other thread executes a step of reconnect (delete_device, remove_io,
\* init_device/set_config, add_io) on that instance, and no two threads are
\* inside a driver call of that instance at the same time.
C1_MutualExclusion ==
    \A t \in Threads, u \in Threads :
        (t # u /\ InChannelOp(t) /\ ~Idle(u) /\ Top(u).d = stk[t][1].d)
        => /\ ~InReconnectStep(u)
           /\ ~(InDriverCall(t) /\ InDriverCall(u))

\* C2: an invocation of reconnect() returns: it is never left waiting for
\* the instance lock in a state in which that wait cannot end, the Lock
\* object being held by the waiting thread itself.
C2_ReconnectReturns ==
    \A t \in Threads : InReconnect(t) => ~SelfBlocked(t)

\* C3: an evaluation of is_connected() that finds the instance
\* disconnected with a last-error time recorded and
\* now - error_time > reconnect_timeout calls reconnect().
C3_ReconnectTriggered ==
    (/\ last.chk
     /\ ~last.conn
     /\ last.et0 > 0
     /\ last.at - last.et0 > dev[last.d].reconnect_timeout)
    => last.trig

\* C4: a check of a disconnected instance made before reconnect_timeout
\* has elapsed since the recorded error time calls no reconnect(), and a
\* check made less than reconnect_timeout after the previous check does not
\* call a second reconnect() within reconnect_timeout of an earlier one.
C4_RateLimited ==
    (last.chk /\ ~last.conn)
    => LET T == dev[last.d].reconnect_timeout
       IN  /\ (last.et0 > 0 /\ last.at - last.et0 < T) => ~last.trig
           /\ (last.prevCheckAt > 0 /\ last.at - last.prevCheckAt < T)
              => ~(last.trig /\ last.prevTrigAt > 0 /\ last.at - last.prevTrigAt < T)

\* two checks of a disconnected instance less than reconnect_timeout apart,
\* the second within reconnect_timeout of the recorded error
C4_Witness ==
    /\ last.chk
    /\ ~last.conn
    /\ last.prevCheckAt > 0
    /\ last.at - last.prevCheckAt < dev[last.d].reconnect_timeout
    /\ last.et0 > 0
    /\ last.at - last.et0 < dev[last.d].reconnect_timeout
    /\ ~last.trig

\* C5: a read_general or write_general that finds the instance disconnected
\* leaves the attribute with Invalid quality (the read returning the error
\* value), calls no driver method and leaves error_count and error_time
\* as they were.
C5_DisconnectedIO ==
    (last.op \in {"read_general", "write_general"} /\ ~last.conn)
    => /\ last.q1 = "INVALID"
       /\ last.drv = "none"
       /\ ~last.exc
       /\ last.ec1 = last.ec0
       /\ last.et1 = last.et0
       /\ (last.op = "read_general" => last.ret = ErrorValue)

\* a disconnected read of an attribute that was Valid, with errors on record
C5_Witness ==
    /\ last.op = "read_general"
    /\ ~last.conn
    /\ last.q0 = "VALID"
    /\ last.ec0 > 0
    /\ last.et0 > 0

\* C6: on a connected instance a channel read whose driver result is None
\* or NaN leaves the attribute Invalid; it adds one to error_count and sets
\* error_time to now when the channel is enabled, and changes neither when
\* the channel is disabled.
C6_ReadFailureMasking ==
    (last.op = "read_general" /\ last.conn /\ last.res \in {"None", "NaN"})
    => /\ last.q1 = "INVALID"
       /\ last.ret = ErrorValue
       /\ IF EnabledChannel(hw[last.d], last.a)
          THEN last.ec1 = last.ec0 + 1 /\ last.et1 = last.at
          ELSE last.ec1 = last.ec0 /\ last.et1 = last.et0

\* a failed read of a disabled channel whose attribute was Valid, after the
\* clock has moved on
C6_Witness ==
    /\ last.op = "read_general"
    /\ last.conn
    /\ last.res = "NaN"
    /\ ~EnabledChannel(hw[last.d], last.a)
    /\ last.q0 = "VALID"
    /\ last.at > 1

\* C7: after a successful read (a reading that is neither None nor NaN) or
\* a successful write (the driver returns true) of an enabled channel of a
\* connected instance, error_count is 0, error_time is 0.0 and the
\* attribute is Valid.
C7_SuccessClears ==
    (/\ last.op \in {"read_general", "write_general"}
     /\ last.conn
     /\ last.drv # "none"
     /\ last.res \in {"Num", "True"}
     /\ EnabledChannel(hw[last.d], last.a))
    => /\ last.ec1 = 0
       /\ last.et1 = 0
       /\ last.q1 = "VALID"

\* a successful read after failures, of an attribute that was Invalid
C7_Witness ==
    /\ last.op = "read_general"
    /\ last.conn
    /\ last.res = "Num"
    /\ EnabledChannel(hw[last.d], last.a)
    /\ last.ec0 > 0
    /\ last.et0 > 0
    /\ last.q0 = "INVALID"

\* C8: a write_general to an ao/do channel of a connected instance whose
\* driver write returns false leaves the attribute Invalid, enabled or not;
\* error_count grows by one and error_time becomes now exactly when the
\* channel is enabled.
C8_WriteFailure ==
    (/\ last.op = "write_general"
     /\ last.conn
     /\ last.drv \in {"ao_write_channel", "do_write_channel"}
     /\ last.res = "False")
    => /\ last.q1 = "INVALID"
       /\ IF EnabledChannel(hw[last.d], last.a)
          THEN last.ec1 = last.ec0 + 1 /\ last.et1 = last.at
          ELSE last.ec1 = last.ec0 /\ last.et1 = last.et0

\* C9: a write_general to an attribute that is not an ao/do channel leaves
\* the attribute Invalid, calls no driver write and leaves error_count and
\* error_time as they were.
C9_WriteRejected ==
    (last.op = "write_general" /\ Head2(last.a) \notin {AO, DO})
    => /\ last.q1 = "INVALID"
       /\ last.drv = "none"
       /\ last.ec1 = last.ec0
       /\ last.et1 = last.et0

\* C10: after an add_io in which no creation raised ends Running, every
\* kind with count n > 0 has exactly one aggregate all_<kind>, of size n
\* whatever the masks, and channel i < n has an attribute of its own
\* exactly when it is enabled or show_disabled_channels is set; a kind with
\* count 0 has no attribute at all.
C10_RegistryShape ==
    (last.op = "add_io" /\ last.state = "RUNNING" /\ last.res = "clean")
    => \A k \in Kinds :
         LET n == Count(hw[last.d], k)
             reg == last.registered
         IN  IF n > 0
             THEN /\ { r \in reg : r[1] = AllName(k) } = { <<AllName(k), n>> }
                  /\ \A i \in 0..(n - 1) :
                       (\E r \in reg : r[1] = ChanName(k, i))
                       <=> (EnabledChannel(hw[last.d], ChanName(k, i))
                            \/ dev[last.d].show_disabled_channels)
             ELSE \A r \in reg : r[1] # AllName(k) /\ Head2(r[1]) # k

\* a build for two analog inputs, the second disabled and not shown
C10_Witness ==
    /\ last.op = "add_io"
    /\ last.state = "RUNNING"
    /\ last.res = "clean"
    /\ ~dev[last.d].show_disabled_channels
    /\ hw[last.d].ai_n = 2
    /\ hw[last.d].ai_masks = <<TRUE, FALSE>>
    /\ <<ChanName(AI, 0), 1>> \in last.registered
    /\ \A r \in last.registered : r[1] # ChanName(AI, 1)
    /\ <<AllName(AI), 2>> \in last.registered

\* C11: after remove_io() has returned, nothing that add_io() created is
\* still registered with the framework and the attributes dict is empty,
\* whether or not the removal of an entry was refused.
C11_TeardownComplete ==
    (last.op = "remove_io")
    => /\ last.registered = {}
       /\ last.attributes = <<>>

\* the registry a single add_io() gives an instance of d's module and
\* configuration that has no attribute yet
Built(d) ==
    add_io([dev[d] EXCEPT !.attributes = <<>>, !.registered = {}],
           hw[d], {}, <<>>, now).S

\* C12: after remove_io(), add_io(), remove_io(), add_io() on an instance
\* whose module and configuration stay the same, the attributes registered
\* with the framework and the attributes dict are those of a single
\* add_io() on a fresh instance.
C12_RebuildIdempotent ==
    (last.op = "add_io" /\ last.rounds >= 2)
    => /\ last.registered = Built(last.d).registered
       /\ last.attributes = Built(last.d).attributes

\* the second rebuild of a connected module with a hidden disabled channel,
\* whose teardown leaves framework attributes behind
C12_Witness ==
    /\ last.op = "add_io"
    /\ last.rounds = 2
    /\ last.conn
    /\ ~dev[last.d].show_disabled_channels
    /\ hw[last.d].ai_n = 2
    /\ hw[last.d].ai_masks = <<TRUE, FALSE>>
    /\ <<AllName(AI), 2>> \in last.registered

\* C13: read_all on an aggregate all_<kind>: disconnected, the attribute is
\* Invalid and no driver method is called; connected, the bulk read of that
\* kind is called, a result of None leaves the attribute Invalid and any
\* other result is handed back as the driver gave it, with Valid quality.
C13_AggregateRead ==
    (last.op = "read_all" /\ Tail2(last.a) \in Kinds)
    => /\ ~last.exc
       /\ IF ~last.conn
          THEN last.q1 = "INVALID" /\ last.drv = "none"
          ELSE /\ last.drv = BulkDriverOf(Tail2(last.a))
               /\ IF last.res = "None"
                  THEN last.q1 = "INVALID" /\ last.ret = ErrorValue
                  ELSE last.q1 = "VALID" /\ last.ret = last.res

\* a bulk read that fails on a connected module whose channel is disabled,
\* the aggregate having been Valid
C13_Witness ==
    /\ last.op = "read_all"
    /\ last.a = AllName(AI)
    /\ last.conn
    /\ last.res = "None"
    /\ last.q0 = "VALID"
    /\ hw[last.d].ai_masks = <<FALSE>>

\* the instances other than d that are in the device list with the
\* address d is configured with
SameAddress(d) ==
    { e \in Devs \ {d} : InList(device_list, e) /\ dev[e].ip = cfg[d].ip }

\* C14: an instance initialised with the address of another instance of
\* the device list, neither of the two emulated, ends in FAULT with no
\* driver object and no driver call; an emulated instance is not refused
\* for sharing an address.
C14_IpCollision ==
    (last.op = "init_device")
    => LET d == last.d
       IN  /\ (~cfg[d].emulate /\ \E e \in SameAddress(d) : ~dev[e].emulate)
              => /\ last.state = "FAULT"
                 /\ dev[d].et = "None"
                 /\ last.drv = "none"
           /\ (cfg[d].emulate /\ SameAddress(d) # {}) => last.res # "in_use"

\* C15: a step that takes an instance from FAULT to RUNNING is a step of
\* a reconnect() call (delete_device, init_device, add_io); the event loop
\* and an add_io of its own never do it.
C15_FaultedStays ==
    [][\A d \in Devs :
         (dev[d].state = "FAULT" /\ dev'[d].state = "RUNNING")
         => \E t \in Threads : InReconnect(t)]_vars

\* the operations that read or assign error_count, error_time, the
\* registry or the driver object of an instance
SharedStateOps ==
    ChanOps \cup {"add_io", "remove_io", "init_device", "read_device_type",
                  "read_IP", "read_modbus", "write_modbus"}

\* C16: every operation that reads or assigns the health state, the
\* registry or the driver object of an instance runs holding the
\* instance's lock, the status queries read_device_type and read_IP and
\* the commands read_modbus and write_modbus included.
C16_LockHeld == (last.op \in SharedStateOps) => last.held

\* C17: read_modbus(address, n) never raises and returns exactly n
\* elements: the driver's values when the read succeeds, n NaN when the
\* driver fails, returns nothing or raises, or when there is no driver
\* object.
C17_RawReadShape ==
    (last.op = "read_modbus")
    => /\ ~last.exc
       /\ Len(last.vals) = last.n
       /\ IF dev[last.d].et # "None" /\ last.res = "values"
          THEN last.vals = Values(last.n)
          ELSE last.vals = NaNs(last.n)

C17_Witness ==
    /\ last.op = "read_modbus" /\ last.n = 2
    /\ dev[last.d].et = "None"
    /\ last.vals = <<"NaN", "NaN">>

\* C18: a write_modbus whose driver write fails returns False without
\* raising and counts toward health as a failed write of an enabled
\* channel does: error_count one more, error_time the current time.
C18_RawWriteFailure ==
    (last.op = "write_modbus" /\ (last.res # "True" \/ dev[last.d].et = "None"))
    => /\ ~last.exc
       /\ last.ret = "False"
       /\ last.ec1 = last.ec0 + 1
       /\ last.et1 = now

\* C19: no exposed operation ends with an exception, whatever the state
\* of the instance; read_device_type gives '0000' when there is no driver
\* object or the module is unknown.
C19_NothingRaises ==
    (last.op \in SharedStateOps)
    => /\ ~last.exc
       /\ (last.op = "read_device_type" /\ dev[last.d].et \in {"None", "Zero"})
          => last.ret = "0000"

\* C20: a per-channel creation that raises during add_io stops neither
\* the other channels of its kind nor the other kinds: with a known module
\* and no aggregate creation raising, the build ends RUNNING, returns the
\* number of per-channel attributes it created, and every wanted channel
\* whose creation did not raise, and every aggregate, is registered; the
\* build ends FAULT exactly when the module is unknown or absent or an
\* aggregate creation raises.
C20_BestEffortBuild ==
    (last.op = "add_io")
    => LET S == dev[last.d]
           h == hw[last.d]
           made == Wanted(S, h) \ last.fails
       IN  /\ (last.state = "FAULT") <=> (S.et # "Ok" \/ last.agg)
           /\ (S.et = "Ok" /\ ~last.agg)
              => /\ last.state = "RUNNING"
                 /\ last.ret = Cardinality(made)
                 /\ \A name \in made : <<name, 1>> \in last.registered
                 /\ \A k \in Kinds :
                      Count(h, k) > 0 => <<AllName(k), Count(h, k)>> \in last.registered

\* a build for two analog inputs in which the creation of ai00 raises:
\* ai01 and the aggregate are created, 1 is returned
C20_Witness ==
    /\ last.op = "add_io"
    /\ last.state = "RUNNING"
    /\ hw[last.d].ai_n = 2
    /\ hw[last.d].ai_masks = <<TRUE, TRUE>>
    /\ last.fails = {ChanName(AI, 0)}
    /\ last.ret = 1
    /\ <<ChanName(AI, 1), 1>> \in last.registered
    /\ <<AllName(AI), 2>> \in last.registered
    /\ \A r \in last.registered : r[1] # ChanName(AI, 0)

\* C21: a step that takes registrations of an instance away leaves its
\* init_io set, so that the event loop builds the registry again, and
\* init_io is cleared only by an add_io that ends RUNNING.
C21_PendingFlag ==
    [][\A d \in Devs :
         /\ (dev'[d].registered \subseteq dev[d].registered
             /\ dev'[d].registered # dev[d].registered)
            => dev'[d].init_io
         /\ (dev[d].init_io /\ ~dev'[d].init_io)
            => /\ last'.op = "add_io"
               /\ last'.d = d
               /\ dev'[d].state = "RUNNING"]_vars

\* C22: a set_config whose handshake fails (the module type stays 0 for
\* the whole wait, or creating the driver object raises) leaves the
\* instance in FAULT, out of the device list, with no driver object and no
\* address.
C22_FailedOpen ==
    (last.op = "init_device" /\ last.res \in {"notready", "raise"})
    => /\ dev[last.d].state = "FAULT"
       /\ ~InList(device_list, last.d)
       /\ dev[last.d].et = "None"
       /\ dev[last.d].ip = "None"

\* C23: on a connected module a read_all whose bulk read gives a value
\* sets error_count and error_time to 0; one whose bulk read gives nothing
\* leaves both as they were, all channels of the kind enabled or not.
C23_AggregateHealth ==
    (last.op = "read_all" /\ Tail2(last.a) \in Kinds /\ last.conn)
    => IF last.res # "None"
       THEN last.ec1 = 0 /\ last.et1 = 0
       ELSE last.ec1 = last.ec0 /\ last.et1 = last.et0

\* an absent bulk read of the analog inputs, the one channel enabled,
\* after a failed read of that channel has been counted
C23_Witness ==
    /\ last.op = "read_all" /\ last.a = AllName(AI)
    /\ last.conn
    /\ last.res = "None"
    /\ hw[last.d].ai_masks = <<TRUE>>
    /\ last.ec0 > 0 /\ last.ec1 = last.ec0
    /\ last.et0 > 0 /\ last.et1 = last.et0

\* the two health fields of an instance agree
HealthConsistent(S) ==
    /\ S.error_count >= 0
    /\ S.error_count > 0 => S.error_time > 0

\* C24 as stated: error_count >= 0, error_count > 0 only with an
\* error_time recorded, and an operation that takes one of the two to zero
\* leaves both at zero.
C24_HealthPaired ==
    [][\A d \in Devs :
         /\ HealthConsistent(dev'[d])
         /\ (dev[d].error_count > 0 /\ dev'[d].error_count = 0)
            => dev'[d].error_time = 0
         /\ (dev[d].error_time > 0 /\ dev'[d].error_time = 0)
            => dev'[d].error_count = 0]_vars

\* C24 as the code has it: the same, except that a set_config in which
\* creating the driver object raises leaves error_count 0 with error_time
\* the time of that failure.
C24_HealthPairedButFailedOpen ==
    [][\A d \in Devs :
         /\ HealthConsistent(dev'[d])
         /\ (dev[d].error_count > 0 /\ dev'[d].error_count = 0)
            => \/ dev'[d].error_time = 0
               \/ /\ last'.op = "init_device" /\ last'.d = d
                  /\ last'.res = "raise"
                  /\ dev'[d].et = "None"
                  /\ dev'[d].error_time = now
         /\ (dev[d].error_time > 0 /\ dev'[d].error_time = 0)
            => dev'[d].error_count = 0]_vars

\* an instance whose failed open was counted, initialised again with the
\* creation of the driver object raising
C24_Witness ==
    /\ last.op = "init_device"
    /\ last.res = "raise"
    /\ last.ec0 > 0 /\ last.ec1 = 0
    /\ last.et1 = now
    /\ dev[last.d].error_count = 0 /\ dev[last.d].error_time > 0

\* how many times instance d is in the list
Occurrences(list, d) == Cardinality({ i \in 1..Len(list) : list[i] = d })

\* C25: whatever init_device, delete_device and reconnect calls have run
\* and however they interleaved, an instance is in device_list once at
\* most, an instance without a driver object (deleted, or whose open
\* failed) is not in it, and no two instances of the list that are not
\* emulated have the same address.
C25_ListIntegrity ==
    /\ \A d \in Devs : Occurrences(device_list, d) <= 1
    /\ \A d \in Devs : InList(device_list, d) => dev[d].et # "None"
    /\ \A d, e \in Devs :
         (d # e /\ InList(device_list, d) /\ InList(device_list, e)
          /\ ~dev[d].emulate /\ ~dev[e].emulate)
         => dev[d].ip # dev[e].ip

\* C26: an instance whose state is RUNNING has a driver object of a
\* recognised type, so that is_connected() gives True; teardown, a failed
\* open and a failed build never leave RUNNING without it.
C26_RunningConnected ==
    \A d \in Devs : dev[d].state = "RUNNING" => dev[d].et = "Ok"

====
